---- MODULE Spec2Model ----
(***************************************************************************)
(* A model of package throttle (throttle.go, throttle_test.go).            *)
(*                                                                         *)
(* throttle.go holds two editions of the package: the first one            *)
(* (lines 1-85, Wait(r *http.Request)) keys clients by ip4(r.RemoteAddr)   *)
(* and is the one throttle_test.go drives; the second one (lines 87-152,   *)
(* Wait(client string)) takes the client key directly.  The variable api   *)
(* says which edition a Throttle belongs to.                               *)
(*                                                                         *)
(* Timing model.  Time is a counter of ticks of 10 ms.  A goroutine that   *)
(* can take a step takes it before the clock advances (computation costs   *)
(* no time) and time.Sleep(d) wakes exactly d after it was called.  Steps  *)
(* that are enabled at the same instant happen in any order, and a select  *)
(* whose two cases are both ready takes either one, as Go's select does.   *)
(***************************************************************************)
EXTENDS Integers, Sequences, FiniteSets, TLC

\* ---------------------------------------------------------------- bounds
\* calls made in a free workload
MaxCalls == 3
\* the clock stops here in a free workload
MaxTime == 3
\* a free workload constructs New(d) with d in 1..MaxRate ticks
MaxRate == 2

\* ------------------------------------------------------------- durations
\* time.Second in ticks of 10 ms
Second == 100
\* var timeout = 5 * time.Second
timeout == 5 * Second

Nil == "nil"

\* ------------------------------------------------------------ client key
\* strings are sequences of one-character strings
Contains(s, ch) == \E i \in 1..Len(s) : s[i] = ch

IndexOf(s, ch) == CHOOSE i \in 1..Len(s) : s[i] = ch /\ \A j \in 1..(i-1) : s[j] # ch

RECURSIVE Split(_, _)
Split(s, sep) ==
    IF ~Contains(s, sep) THEN <<s>>
    ELSE LET i == IndexOf(s, sep)
         IN  <<SubSeq(s, 1, i - 1)>> \o Split(SubSeq(s, i + 1, Len(s)), sep)

ip4(remoteAddr) ==
    IF ~Contains(remoteAddr, ":") THEN remoteAddr
    ELSE LET fields == Split(remoteAddr, ":")
         IN  IF Len(fields) < 2 THEN remoteAddr ELSE fields[1]

\* ------------------------------------------------------------- workloads
\* throttle_test.go: testCases
testCases == <<
    [AllowedRate |-> 1 * Second, ProgressiveRequestPause |-> Second \div 10,
     TotalRequests |-> 10, ExpectedRequestsOK |-> 2, ExpectedRequestsFail |-> 8],
    [AllowedRate |-> Second \div 100, ProgressiveRequestPause |-> Second \div 10,
     TotalRequests |-> 10, ExpectedRequestsOK |-> 10, ExpectedRequestsFail |-> 0],
    [AllowedRate |-> 1 * Second, ProgressiveRequestPause |-> (45 * Second) \div 100,
     TotalRequests |-> 5, ExpectedRequestsOK |-> 3, ExpectedRequestsFail |-> 2] >>

\* TestDoubleRequestTooFast: request nthRequest (from 0) sleeps
\* nthRequest * ProgressiveRequestPause and then calls Wait
TestLoad(i) ==
    [name |-> "test", idx |-> i, rate |-> testCases[i].AllowedRate,
     n |-> testCases[i].TotalRequests,
     at |-> [c \in 1..testCases[i].TotalRequests |->
                (c - 1) * testCases[i].ProgressiveRequestPause]]

\* Scenario A of the specification: interval 1 s, calls at 0, 100, 1100, 2100 ms
ScenarioA ==
    [name |-> "scenarioA", idx |-> 0, rate |-> 1 * Second, n |-> 4,
     at |-> <<0, Second \div 10, (11 * Second) \div 10, (21 * Second) \div 10>>]

\* calls made at any time, with any input
FreeLoad(d) == [name |-> "free", idx |-> 0, rate |-> d, n |-> MaxCalls, at |-> <<>>]

\* the intervals of the free workloads: the shortest and the longest
FreeRates == {1, MaxRate}

Workloads ==
    {FreeLoad(d) : d \in FreeRates}
        \cup {TestLoad(i) : i \in 1..Len(testCases)} \cup {ScenarioA}

\* what a call is given: a request's RemoteAddr (first edition) or a client key
RemoteAddrs == {<<"a", ":", "1">>, <<"b">>}
Clients == {<<"a">>, <<"b">>}
\* clients are interchangeable: the first call is this one's
FirstRemoteAddr == <<"a", ":", "1">>
FirstClient == <<"a">>

VARIABLES
    api,         \* "v1": Wait(r *http.Request), "v2": Wait(client string)
    workload,    \* when the calls are made
    requestRate, \* Throttle.requestRate
    now,         \* the clock
    mutex,       \* Throttle.tokenChansMutex: 0, or the call that holds it
    tokenChans,  \* Throttle.tokenChans: key -> channel
    pc,          \* where each call is in Wait
    arg,         \* the call's argument
    client,      \* the call's local user (first edition) or client: the key
    tokenChan,   \* the call's local tokenChan (a channel is named by the call that made it)
    firstTok,    \* the goroutine of lines 124-127 started by the call
    nextTok,     \* the goroutine of lines 143-146 started by the call
    nextDue,     \* when its Sleep ends
    tmo,         \* the goroutine of lines 134-137 started by the call
    tmoDue,      \* when its Sleep ends
    ret,         \* what the call returned
    arrival,     \* when the call was made
    retAt,       \* when the call returned
    branch,      \* the case of the select the call took
    overlap      \* another call for the same key was made while this one was in Wait

vars == <<api, workload, requestRate, now, mutex, tokenChans, pc, arg, client, tokenChan,
          firstTok, nextTok, nextDue, tmo, tmoDue, ret, arrival, retAt, branch, overlap>>

Calls == 1..workload.n
NoChan == 0

\* a faulty variant: every key falls on the same entry of the map
MapKeyShared(k) == << >>

\* t.tokenChans[client]: the map is indexed by the key
MapKey(k) == k

Inputs(c) ==
    IF workload.name = "free"
    THEN (IF api = "v1"
          THEN (IF c = 1 THEN {FirstRemoteAddr} ELSE RemoteAddrs)
          ELSE (IF c = 1 THEN {FirstClient} ELSE Clients))
    \* http.NewRequest leaves RemoteAddr empty; one client otherwise
    ELSE (IF api = "v1" THEN {<< >>} ELSE {FirstClient})

\* New(requestRate)
New(d) ==
    /\ requestRate = d
    /\ mutex = 0
    /\ tokenChans = << >>

Init ==
    /\ api \in {"v1", "v2"}
    /\ workload \in Workloads
    /\ New(workload.rate)
    /\ now = 0
    /\ pc = [c \in Calls |-> "idle"]
    /\ arg = [c \in Calls |-> << >>]
    /\ client = [c \in Calls |-> << >>]
    /\ tokenChan = [c \in Calls |-> NoChan]
    /\ firstTok = [c \in Calls |-> "none"]
    /\ nextTok = [c \in Calls |-> "none"]
    /\ nextDue = [c \in Calls |-> 0]
    /\ tmo = [c \in Calls |-> "none"]
    /\ tmoDue = [c \in Calls |-> 0]
    /\ ret = [c \in Calls |-> "none"]
    /\ arrival = [c \in Calls |-> 0]
    /\ retAt = [c \in Calls |-> 0]
    /\ branch = [c \in Calls |-> "none"]
    /\ overlap = [c \in Calls |-> FALSE]


\* ------------------------------------------------------------------ Wait
InWait(c) == pc[c] \notin {"idle", "done"}

\* user := ip4(r) (first edition); the parameter client (second edition)
keyOf(input) == IF api = "v1" THEN ip4(input) ELSE input

\* Wait is called
Call(c, input) ==
    /\ pc[c] = "idle"
    /\ IF c = 1 THEN TRUE ELSE pc[c - 1] # "idle"
    /\ workload.name # "free" => now = workload.at[c]
    /\ pc' = [pc EXCEPT ![c] = "lock"]
    /\ arg' = [arg EXCEPT ![c] = input]
    /\ client' = [client EXCEPT ![c] = keyOf(input)]
    /\ arrival' = [arrival EXCEPT ![c] = now]
    /\ overlap' = [x \in Calls |->
                      IF x = c THEN \E y \in Calls : InWait(y) /\ client[y] = client'[c]
                      ELSE overlap[x] \/ (InWait(x) /\ client[x] = client'[c])]
    /\ UNCHANGED <<api, workload, requestRate, now, mutex, tokenChans, tokenChan,
                   firstTok, nextTok, nextDue, tmo, tmoDue, ret, retAt, branch>>

\* a faulty variant: no goroutine sends the first token
FirstTokenMissing == "none"

\* go func() { tokenChan <- struct{}{} }(): the first token's goroutine
FirstToken == "started"

\* a faulty variant: Lock() does not wait for the holder
MutexIgnored == TRUE

\* t.tokenChansMutex.Lock() succeeds when no call holds the mutex
MutexFree == mutex = 0

\* t.tokenChansMutex.Lock()
\* tokenChan, ok := t.tokenChans[client]   (tokenChan is nil when !ok)
Lookup(c) ==
    /\ pc[c] = "lock"
    /\ MutexFree
    /\ mutex' = c
    /\ tokenChan' = [tokenChan EXCEPT ![c] =
                        IF MapKey(client[c]) \in DOMAIN tokenChans
                        THEN tokenChans[MapKey(client[c])] ELSE NoChan]
    /\ pc' = [pc EXCEPT ![c] = "unlock"]
    /\ UNCHANGED <<api, workload, requestRate, now, tokenChans, arg, client, firstTok,
                   nextTok, nextDue, tmo, tmoDue, ret, arrival, retAt, branch, overlap>>

\* t.tokenChans[client] = tokenChan
Store(k, ch) ==
    [x \in DOMAIN tokenChans \cup {MapKey(k)} |->
        IF x = MapKey(k) THEN ch ELSE tokenChans[x]]

\* a faulty variant: the timeout goroutine sleeps twice the interval
TimeoutSleepDouble == 2 * requestRate

\* the timeout goroutine's time.Sleep(t.requestRate)
TimeoutSleep == requestRate

\* if !ok { tokenChan = make(chan struct{}); go func() { tokenChan <- }(); store }
\* t.tokenChansMutex.Unlock()
Unlock(c) ==
    /\ pc[c] = "unlock"
    /\ IF tokenChan[c] = NoChan
       THEN /\ tokenChan' = [tokenChan EXCEPT ![c] = c]
            /\ firstTok' = [firstTok EXCEPT ![c] = FirstToken]
            /\ tokenChans' = Store(client[c], c)
       ELSE UNCHANGED <<tokenChan, firstTok, tokenChans>>
    /\ mutex' = 0
    /\ pc' = [pc EXCEPT ![c] = "timer"]
    /\ UNCHANGED <<api, workload, requestRate, now, arg, client, nextTok, nextDue,
                   tmo, tmoDue, ret, arrival, retAt, branch, overlap>>

\* timeoutChan := make(chan struct{}); go func() { Sleep; timeoutChan <- }()
StartTimeout(c) ==
    /\ pc[c] = "timer"
    /\ tmo' = [tmo EXCEPT ![c] = "started"]
    /\ tmoDue' = [tmoDue EXCEPT ![c] = now + TimeoutSleep]
    /\ pc' = [pc EXCEPT ![c] = "select"]
    /\ UNCHANGED <<api, workload, requestRate, now, mutex, tokenChans, arg, client,
                   tokenChan, firstTok, nextTok, nextDue, ret, arrival, retAt,
                   branch, overlap>>

\* a faulty variant: the timeout goroutine sends without sleeping
TimeoutReadyAtOnce(c) == tmo[c] = "started"

\* the call's timeout goroutine has slept and is blocked in timeoutChan <- struct{}{}
TimeoutReady(c) == tmo[c] = "started" /\ now >= tmoDue[c]

\* the token goroutine call p started on being admitted has slept and is blocked
\* in tokenChan <- struct{}{}
NextReady(p) == nextTok[p] = "started" /\ now >= nextDue[p]

\* the first token's goroutine of the channel is blocked in tokenChan <- struct{}{}
FirstReady(ch) == firstTok[ch] = "started"

\* fmt.Errorf("one request per %v allowed", d)
Errorf(d) == <<"one request per", d, "allowed">>

\* a faulty variant: the token case returns the error too
ReturnOKWithErr(c) ==
    IF api = "v1" THEN [r |-> arg[c], err |-> Errorf(timeout)]
    ELSE [err |-> Errorf(requestRate)]

\* return r, nil (first edition); return nil (second edition)
ReturnOK(c) == IF api = "v1" THEN [r |-> arg[c], err |-> Nil] ELSE [err |-> Nil]

\* return nil, fmt.Errorf(..., timeout) (first edition);
\* return fmt.Errorf(..., t.requestRate) (second edition)
ReturnErr(c) ==
    IF api = "v1" THEN [r |-> Nil, err |-> Errorf(timeout)]
    ELSE [err |-> Errorf(requestRate)]

\* faulty variants: the next token is sent at once, a tick early, a tick late
TokenSleepNone == 0 * requestRate
TokenSleepShort == requestRate - 1
TokenSleepLong == requestRate + 1

\* the new token goroutine's time.Sleep(t.requestRate)
TokenSleep == requestRate

\* a faulty variant: the token goroutine sends again and again
AfterSendLoops == "started"

\* a token goroutine returns after its one send
AfterSend == "done"

\* a faulty variant: no goroutine is started for the next token
NextTokenMissing == "none"

\* go func() { time.Sleep(t.requestRate); tokenChan <- struct{}{} }()
NextToken == "started"

\* case <-tokenChan: after the receive, start the next token's goroutine and return
Admit(c) ==
    /\ pc' = [pc EXCEPT ![c] = "done"]
    /\ nextDue' = [nextDue EXCEPT ![c] = now + TokenSleep]
    /\ ret' = [ret EXCEPT ![c] = ReturnOK(c)]
    /\ retAt' = [retAt EXCEPT ![c] = now]
    /\ branch' = [branch EXCEPT ![c] = "token"]

\* case <-tokenChan, the sender being the key's first token goroutine
RecvFirstToken(c) ==
    /\ pc[c] = "select"
    /\ FirstReady(tokenChan[c])
    /\ firstTok' = [firstTok EXCEPT ![tokenChan[c]] = AfterSend]
    /\ nextTok' = [nextTok EXCEPT ![c] = NextToken]
    /\ Admit(c)
    /\ UNCHANGED <<api, workload, requestRate, now, mutex, tokenChans, arg, client, tokenChan,
                   tmo, tmoDue, arrival, overlap>>

\* case <-tokenChan, the sender being the goroutine an admitted call p started
RecvNextToken(c, p) ==
    /\ pc[c] = "select"
    /\ NextReady(p)
    /\ tokenChan[p] = tokenChan[c]
    /\ nextTok' = [nextTok EXCEPT ![p] = AfterSend, ![c] = NextToken]
    /\ Admit(c)
    /\ UNCHANGED <<api, workload, requestRate, now, mutex, tokenChans, arg, client, tokenChan,
                   firstTok, tmo, tmoDue, arrival, overlap>>

\* a faulty variant: the timeout case starts a token goroutine as the token case does
RecvTimeoutRespawns(c) ==
    /\ pc[c] = "select"
    /\ TimeoutReady(c)
    /\ tmo' = [tmo EXCEPT ![c] = "done"]
    /\ pc' = [pc EXCEPT ![c] = "done"]
    /\ nextTok' = [nextTok EXCEPT ![c] = NextToken]
    /\ nextDue' = [nextDue EXCEPT ![c] = now + TokenSleep]
    /\ ret' = [ret EXCEPT ![c] = ReturnErr(c)]
    /\ retAt' = [retAt EXCEPT ![c] = now]
    /\ branch' = [branch EXCEPT ![c] = "timeout"]
    /\ UNCHANGED <<api, workload, requestRate, now, mutex, tokenChans, arg, client, tokenChan,
                   firstTok, tmoDue, arrival, overlap>>

\* case <-timeoutChan
RecvTimeout(c) ==
    /\ pc[c] = "select"
    /\ TimeoutReady(c)
    /\ tmo' = [tmo EXCEPT ![c] = "done"]
    /\ pc' = [pc EXCEPT ![c] = "done"]
    /\ ret' = [ret EXCEPT ![c] = ReturnErr(c)]
    /\ retAt' = [retAt EXCEPT ![c] = now]
    /\ branch' = [branch EXCEPT ![c] = "timeout"]
    /\ UNCHANGED <<api, workload, requestRate, now, mutex, tokenChans, arg, client, tokenChan,
                   firstTok, nextTok, nextDue, tmoDue, arrival, overlap>>

\* ----------------------------------------------------------------- clock
\* a token goroutine is blocked sending on the call's channel
TokenReady(c) ==
    \/ FirstReady(tokenChan[c])
    \/ \E p \in Calls : NextReady(p) /\ tokenChan[p] = tokenChan[c]

\* some goroutine can take a step now
Runnable ==
    \/ \E c \in Calls : pc[c] \in {"lock", "unlock", "timer"}
    \/ \E c \in Calls : pc[c] = "select" /\ (TimeoutReady(c) \/ TokenReady(c))
    \/ workload.name # "free" /\ \E c \in Calls : pc[c] = "idle" /\ workload.at[c] <= now

Horizon ==
    IF workload.name = "free" THEN MaxTime
    ELSE workload.at[workload.n] + 2 * workload.rate

Tick ==
    /\ ~Runnable
    /\ now < Horizon
    /\ now' = now + 1
    /\ UNCHANGED <<api, workload, requestRate, mutex, tokenChans, pc, arg, client, tokenChan,
                   firstTok, nextTok, nextDue, tmo, tmoDue, ret, arrival, retAt,
                   branch, overlap>>

Next ==
    \/ \E c \in Calls : \E input \in Inputs(c) : Call(c, input)
    \/ \E c \in Calls : Lookup(c)
    \/ \E c \in Calls : Unlock(c)
    \/ \E c \in Calls : StartTimeout(c)
    \/ \E c \in Calls : RecvFirstToken(c)
    \/ \E c, p \in Calls : RecvNextToken(c, p)
    \/ \E c \in Calls : RecvTimeout(c)
    \/ Tick

Spec == Init /\ [][Next]_vars


\* ---------------------------------------------------------------- claims
Done(c) == pc[c] = "done"
OK(c) == Done(c) /\ ret[c].err = Nil
Rejected(c) == Done(c) /\ ret[c].err # Nil
Started(c) == pc[c] # "idle"
\* the client the call was made for
Key(c) == client[c]
SameClient(c, p) == c # p /\ Started(c) /\ Started(p) /\ Key(c) = Key(p)
AllDone == \A c \in Calls : Done(c)
NumOK == Cardinality({c \in Calls : OK(c)})
NumRejected == Cardinality({c \in Calls : Rejected(c)})

\* C1: two admitted calls for the same client consumed their tokens at least
\* requestRate apart.
C1_OneAdmissionPerInterval ==
    \A c \in Calls :
        OK(c) =>
            \A p \in Calls :
                OK(p) /\ SameClient(c, p) /\ retAt[p] <= retAt[c]
                    => retAt[c] - retAt[p] >= requestRate

\* two calls that were in Wait together were admitted exactly requestRate apart
C1_Witness ==
    \E c, p \in Calls :
        /\ SameClient(c, p) /\ OK(c) /\ OK(p)
        /\ overlap[c]
        /\ retAt[c] - retAt[p] = requestRate

\* the call that found the key absent and made its channel
Creator(c) == Started(c) /\ tokenChan[c] = c

\* C2 as stated: the first call for a fresh key succeeds.
C2_FirstCallSucceeds ==
    \A c \in Calls : Creator(c) /\ Done(c) => OK(c)

\* C2 amended: the first call for a fresh key is admitted, at the instant it was
\* made, when no other call for that key is in Wait together with it.
C2_FirstCallAloneSucceeds ==
    \A c \in Calls :
        Creator(c) /\ Done(c) /\ ~overlap[c] => OK(c) /\ retAt[c] = arrival[c]

\* a key's first call, made after the clock started and alone, was admitted
C2_Witness ==
    \E c \in Calls :
        Creator(c) /\ Done(c) /\ ~overlap[c] /\ OK(c) /\ arrival[c] > 0 /\ c > 1

\* C3: a call returns no later than requestRate after it was made, and none is
\* still in Wait after that.
C3_BoundedWait ==
    \A c \in Calls :
        /\ Done(c) => retAt[c] - arrival[c] <= requestRate
        /\ InWait(c) => now - arrival[c] <= requestRate

\* a call rejected at its deadline beside one admitted after waiting
C3_Witness ==
    \E c, p \in Calls :
        /\ Rejected(c) /\ retAt[c] = arrival[c] + requestRate
        /\ OK(p) /\ retAt[p] > arrival[p]

\* call c was made less than requestRate after p, the last call admitted for its
\* client, consumed its token
SoonAfter(c, p) ==
    /\ OK(p) /\ SameClient(c, p)
    /\ retAt[p] <= arrival[c]
    /\ arrival[c] < retAt[p] + requestRate

\* C4 as stated: a call made less than requestRate after the last admission fails.
C4_EarlyCallFails ==
    \A c, p \in Calls : Done(c) /\ SoonAfter(c, p) => Rejected(c)

\* C4 amended: a call made less than requestRate after the last admission is not
\* admitted before requestRate has passed since that consumption (it is admitted
\* then, or rejected at its own deadline with the rate-limit error); a call that
\* was already waiting when another took the token is rejected.
C4_EarlyCallWaits ==
    \A c \in Calls :
        Done(c) =>
            \A p \in Calls :
                /\ SoonAfter(c, p) =>
                      \/ OK(c) /\ retAt[c] >= retAt[p] + requestRate
                      \/ Rejected(c) /\ retAt[c] = arrival[c] + requestRate
                /\ OK(p) /\ SameClient(c, p)
                      /\ arrival[c] < retAt[p] /\ retAt[p] <= retAt[c] => Rejected(c)

\* both cases: an early call admitted once the interval had passed, and a call
\* that was waiting when another took the token, rejected
C4_Witness ==
    /\ \E c, p \in Calls : SoonAfter(c, p) /\ OK(c) /\ arrival[c] > retAt[p]
    /\ \E c, p \in Calls :
          SameClient(c, p) /\ OK(p) /\ Rejected(c) /\ arrival[c] < retAt[p]

\* the client made its calls one at a time
OneAtATime(c) == \A p \in Calls : Started(p) /\ Key(p) = Key(c) => ~overlap[p]

\* C5: when a client calls one call at a time, a call made at least requestRate
\* after the previous admission is admitted, without waiting; the ten calls of
\* the second test case are all admitted.
C5_SpacedCallsSucceed ==
    /\ \A c \in Calls :
          /\ Done(c) /\ OneAtATime(c)
          /\ \A p \in Calls :
                SameClient(c, p) /\ OK(p) /\ retAt[p] <= arrival[c]
                    => arrival[c] >= retAt[p] + requestRate
          => OK(c) /\ retAt[c] = arrival[c]
    /\ workload = TestLoad(2) /\ AllDone
          => NumOK = testCases[2].ExpectedRequestsOK /\ NumRejected = 0

\* the second test case has run, its calls made one at a time, each more than
\* requestRate after the admission before it, all ten admitted
C5_Witness ==
    /\ workload = TestLoad(2) /\ AllDone /\ NumOK = 10
    /\ \A c \in Calls : OneAtATime(c)
    /\ \A c \in 2..workload.n : arrival[c] >= retAt[c - 1] + requestRate

\* a call made exactly requestRate after the previous admission was admitted
C5_WitnessFree ==
    \E c, p \in Calls :
        /\ workload.name = "free" /\ OneAtATime(c)
        /\ SameClient(c, p) /\ OK(p) /\ OK(c)
        /\ arrival[c] = retAt[p] + requestRate


\* the calls that have looked up their channel
Bound(c) == pc[c] \in {"timer", "select", "done"}

\* C6: a call's fate is decided by the calls for its own client alone: it
\* receives from its own client's channel only; it is rejected only when another
\* call for the same client was admitted during its wait; and it waits for its
\* token only when the same client's previous token was consumed requestRate
\* before.  Calls for other clients never make it fail or wait.
C6_PerKeyIndependence ==
    /\ \A c \in Calls :
          Bound(c) =>
              \A p \in Calls :
                  Bound(p) => (tokenChan[c] = tokenChan[p] <=> Key(c) = Key(p))
    /\ \A c \in Calls :
          Rejected(c) =>
              \E p \in Calls :
                  SameClient(c, p) /\ OK(p)
                      /\ arrival[c] <= retAt[p] /\ retAt[p] <= retAt[c]
    /\ \A c \in Calls :
          OK(c) /\ retAt[c] > arrival[c] =>
              \E p \in Calls :
                  SameClient(c, p) /\ OK(p) /\ retAt[p] + requestRate = retAt[c]

\* one client is saturated (a call of its rejected) while a call of another
\* client, made during that wait, was admitted at once
C6_Witness ==
    \E c, p, q \in Calls :
        /\ SameClient(p, q) /\ OK(p) /\ Rejected(q)
        /\ Started(c) /\ Key(c) # Key(p)
        /\ arrival[q] <= arrival[c] /\ arrival[c] < retAt[q]
        /\ OK(c) /\ retAt[c] = arrival[c]

\* tokens handed over by token goroutines
TokensConsumed ==
    Cardinality({c \in Calls : firstTok[c] = "done"})
        + Cardinality({c \in Calls : nextTok[c] = "done"})

\* C7: a call returns the error exactly when its select took the timeout case
\* and nil exactly when it took the token case; these are the only outcomes,
\* and the calls returned without error are as many as the tokens consumed.
C7_ErrorIffTimeout ==
    /\ \A c \in Calls :
          Done(c) =>
              /\ branch[c] \in {"token", "timeout"}
              /\ ret[c].err # Nil <=> branch[c] = "timeout"
              /\ ret[c].err = Nil <=> branch[c] = "token"
              /\ ret[c].err # Nil => ret[c].err \in {Errorf(timeout), Errorf(requestRate)}
              /\ api = "v1" => (ret[c].r = Nil <=> ret[c].err # Nil)
    /\ NumOK = TokensConsumed

\* one call returned through each case of the select
C7_Witness ==
    \E c, p \in Calls :
        /\ Done(c) /\ branch[c] = "token" /\ ret[c].err = Nil
        /\ Done(p) /\ branch[p] = "timeout" /\ ret[p].err # Nil

\* C8: every error Wait returns reports the interval the Throttle was built with.
C8_ErrorCarriesInterval ==
    \A c \in Calls : Rejected(c) => ret[c].err = Errorf(requestRate)

\* C9: in the first test case (interval 1 s, ten calls 100 ms apart) exactly two
\* calls are admitted and eight rejected, whichever waiting call takes the second
\* token; in every workload a call that was waiting when another call took a
\* token, its deadline thus before the next token, is rejected.
C9_OverlappingCalls ==
    /\ workload = TestLoad(1) =>
          /\ NumOK <= testCases[1].ExpectedRequestsOK
          /\ AllDone => /\ NumOK = testCases[1].ExpectedRequestsOK
                        /\ NumRejected = testCases[1].ExpectedRequestsFail
          /\ now >= testCases[1].AllowedRate /\ ~Runnable => NumOK = 2
    /\ \A p \in Calls :
          OK(p) =>
              \A c \in Calls :
                  SameClient(c, p) /\ arrival[c] < retAt[p] =>
                      /\ InWait(c) => nextDue[p] > arrival[c] + requestRate
                      /\ Done(c) /\ retAt[c] >= retAt[p] =>
                            Rejected(c) /\ retAt[c] = arrival[c] + requestRate

\* the first test case has run and the last call made took the second token
C9_Witness ==
    /\ workload = TestLoad(1) /\ AllDone
    /\ OK(1) /\ OK(workload.n) /\ NumOK = 2 /\ NumRejected = 8

Outcomes == [c \in Calls |-> IF OK(c) THEN "OK" ELSE "FAIL"]

\* C10 as stated: Scenario A ends OK, FAIL, OK, OK.
C10_ScenarioA_Stated ==
    workload = ScenarioA /\ AllDone => Outcomes = <<"OK", "FAIL", "OK", "OK">>

\* C10 amended: Scenario A ends OK, OK, OK, OK: the call made at 100 ms waits and
\* takes the token produced at 1000 ms, the calls made at 1100 and 2100 ms take
\* the tokens produced at 2000 and 3000 ms.
C10_ScenarioA ==
    workload = ScenarioA /\ AllDone =>
        /\ Outcomes = <<"OK", "OK", "OK", "OK">>
        /\ retAt = <<0, 1 * Second, 2 * Second, 3 * Second>>

\* Scenario A has run
C10_Witness ==
    workload = ScenarioA /\ AllDone /\ arrival[2] = Second \div 10 /\ OK(2)


\* C11: in the third test case (interval 1 s, five calls 450 ms apart) exactly
\* three calls are admitted and two rejected, whichever waiting call takes each
\* token.
C11_ScenarioC ==
    workload = TestLoad(3) =>
        /\ NumOK <= testCases[3].ExpectedRequestsOK
        /\ NumRejected <= testCases[3].ExpectedRequestsFail
        /\ AllDone => /\ NumOK = testCases[3].ExpectedRequestsOK
                      /\ NumRejected = testCases[3].ExpectedRequestsFail

\* the third test case has run, the later of the two waiting calls having taken
\* the token both times
C11_Witness ==
    /\ workload = TestLoad(3) /\ AllDone
    /\ OK(1) /\ OK(3) /\ OK(5) /\ Rejected(2) /\ Rejected(4)

\* the keys calls have been made for
Keys == {client[c] : c \in {x \in Calls : Started(x)}}

\* the token goroutines of a key that have not sent yet (sleeping, or blocked
\* in their send)
InFlight(k) ==
    {<<"first", c>> : c \in {x \in Calls : client[x] = k /\ firstTok[x] = "started"}}
        \cup {<<"next", c>> : c \in {x \in Calls : client[x] = k /\ nextTok[x] = "started"}}

\* C12: a key never has more than one token goroutine sleeping or blocked in its
\* send, and no two calls for a key are admitted at the same instant.
C12_OneTokenInFlight ==
    /\ \A k \in Keys : Cardinality(InFlight(k)) <= 1
    /\ \A c \in Calls :
          OK(c) => \A p \in Calls : OK(p) /\ SameClient(c, p) => retAt[c] # retAt[p]

\* a key has been idle for longer than the interval, and its one token is waiting
C12_Witness ==
    \E p \in Calls :
        /\ OK(p) /\ nextTok[p] = "started" /\ now > nextDue[p]
        /\ InFlight(client[p]) = {<<"next", p>>}
        /\ \A c \in Calls : Started(c) => Done(c)

\* C13: the timeout goroutine of a call terminates: once the call has returned
\* and the goroutine's Sleep has ended, the goroutine is done.
C13_TimeoutTaskTerminates ==
    \A c \in Calls : Done(c) /\ now > tmoDue[c] => tmo[c] = "done"


\* C14: whatever the interleaving of the calls for a key, one channel is made for
\* it and one first-token goroutine started, by the call that made the channel;
\* the map holds that channel for the key ever after, so every call that has
\* looked the key up holds the channel the map holds.
C14_OneSlotPerKey ==
    /\ \A c \in Calls :
          Creator(c) => \A p \in Calls : Creator(p) /\ client[p] = client[c] => p = c
    /\ \A c \in Calls : firstTok[c] # "none" <=> Creator(c)
    /\ \A c \in Calls :
          Bound(c) => /\ client[c] \in DOMAIN tokenChans
                      /\ tokenChans[client[c]] = tokenChan[c]
    /\ \A k \in DOMAIN tokenChans : Creator(tokenChans[k]) /\ client[tokenChans[k]] = k

\* two calls for a fresh key were in Wait together; the one made later took the
\* mutex first and made the channel, and the other one found it
C14_Witness ==
    \E c, p \in Calls :
        /\ SameClient(c, p) /\ p < c /\ arrival[c] = arrival[p]
        /\ Creator(c) /\ Bound(p) /\ tokenChan[p] = c
        /\ firstTok[p] = "none"

\* the token goroutines the call has started
ProducersStarted(c) ==
    {x \in {"first"} : firstTok[c] # "none"} \cup {x \in {"next"} : nextTok[c] # "none"}

\* C15 as stated: a call starts one timeout goroutine and at most one token
\* goroutine, and that one only when it is admitted.
C15_AtMostOneProducer ==
    \A c \in Calls :
        Done(c) =>
            /\ tmo[c] # "none"
            /\ Cardinality(ProducersStarted(c)) <= 1
            /\ Rejected(c) => ProducersStarted(c) = {}

\* C15 amended: a call starts one timeout goroutine; it starts the next token's
\* goroutine exactly when it is admitted, and the first token's goroutine exactly
\* when it made the key's channel, admitted or not.
C15_ProducersStarted ==
    \A c \in Calls :
        /\ tmo[c] # "none" <=> pc[c] \in {"select", "done"}
        /\ nextTok[c] # "none" <=> OK(c)
        /\ firstTok[c] # "none" <=> Creator(c)
        /\ Rejected(c) => "next" \notin ProducersStarted(c)

\* a call that made its key's channel and was rejected, beside the call that took
\* its first token, and a call that made another key's channel and was admitted
C15_Witness ==
    \E c, q, p \in Calls :
        /\ Creator(c) /\ Rejected(c) /\ ProducersStarted(c) = {"first"}
        /\ SameClient(c, q) /\ OK(q) /\ ProducersStarted(q) = {"next"}
        /\ Creator(p) /\ OK(p) /\ ProducersStarted(p) = {"first", "next"}
        /\ tmo[c] = "done" /\ tmo[q] # "none" /\ tmo[p] # "none"

\* C16: the step by which a call is rejected changes nothing of the tokens: no
\* token goroutine is started, ended or rescheduled, the map is as it was, and the
\* clock has not moved, so a token that was ready or pending still is.
C16_RejectionLeavesTokens ==
    [][\A c \in Calls :
          pc[c] = "select" /\ pc'[c] = "done" /\ branch'[c] = "timeout"
              => /\ firstTok' = firstTok
                 /\ nextTok' = nextTok
                 /\ nextDue' = nextDue
                 /\ tokenChans' = tokenChans
                 /\ now' = now]_vars

\* a call was rejected while a token was ready, and a call made later for the
\* same client took that token at once
C16_Witness ==
    \E c, q, p \in Calls :
        /\ SameClient(c, q) /\ Rejected(c) /\ OK(q)
        /\ arrival[q] > retAt[c] /\ retAt[q] = arrival[q]
        /\ SameClient(p, q) /\ OK(p) /\ nextTok[p] = "done" /\ nextDue[p] <= retAt[c]

\* C17: the mutex is held by one call at most, and by a call exactly between its
\* lookup and its Unlock; a call in its select does not hold it.
C17_LockOnlyAroundLookup ==
    /\ Cardinality({c \in Calls : pc[c] = "unlock"}) <= 1
    /\ \A c \in Calls : mutex = c <=> pc[c] = "unlock"
    /\ mutex \in Calls \cup {0}

\* a call holds the mutex while another is blocked in its select, no token ready
C17_Witness ==
    \E c, p \in Calls :
        /\ pc[c] = "select" /\ ~TokenReady(c) /\ ~TimeoutReady(c) /\ now > arrival[c]
        /\ pc[p] = "unlock" /\ mutex = p

\* the token goroutines of a key whose send a call has received
Handed(k) ==
    {<<"first", c>> : c \in {x \in Calls : client[x] = k /\ firstTok[x] = "done"}}
        \cup {<<"next", c>> : c \in {x \in Calls : client[x] = k /\ nextTok[x] = "done"}}

\* the token goroutines of a key that have reached their send: the tokens produced
Produced(k) ==
    {<<"first", c>> : c \in {x \in Calls : client[x] = k /\ firstTok[x] # "none"}}
        \cup {<<"next", c>> :
                 c \in {x \in Calls : client[x] = k /\ nextTok[x] # "none" /\ now >= nextDue[x]}}

Admitted(k) == {c \in Calls : client[c] = k /\ OK(c)}

\* C18: for every key the admitted calls are as many as the token sends that were
\* received, one call per send, and every send received is one of the tokens
\* produced, so the admitted calls are never more than those; a call that is
\* still in its select has received none.
C18_OneCallPerToken ==
    /\ \A k \in Keys :
          LET handed == Handed(k) IN
              /\ Cardinality(Admitted(k)) = Cardinality(handed)
              /\ handed \subseteq Produced(k)
    /\ \A c \in Calls : pc[c] = "select" => branch[c] = "none" /\ ret[c] = "none"

\* two calls for a key waited from the same instant; the one token went to one of
\* them, the other is still in its select with no token to receive
C18_Witness ==
    \E c, p \in Calls :
        /\ SameClient(c, p) /\ arrival[c] = arrival[p]
        /\ OK(c) /\ retAt[c] = now
        /\ pc[p] = "select" /\ ~TokenReady(p)
        /\ Cardinality(Handed(client[c])) = 1

\* C19: an admitted call has started the goroutine of the next token, which
\* reaches its send requestRate after the admission; a key that has a channel has
\* exactly one token goroutine sleeping or blocked in its send, whatever the
\* rejected calls and the timeout goroutines still around.
C19_NextTokenScheduled ==
    /\ \A c \in Calls :
          OK(c) => /\ nextTok[c] \in {"started", "done"}
                   /\ nextDue[c] = retAt[c] + requestRate
    /\ \A k \in DOMAIN tokenChans : Cardinality(InFlight(k)) = 1

\* the next token has just become ready with no call waiting for it, after a call
\* for the key was rejected, the admitted call's timeout goroutine still around
C19_Witness ==
    \E p, c \in Calls :
        /\ OK(p) /\ NextReady(p) /\ now = nextDue[p] /\ tmo[p] = "started"
        /\ SameClient(c, p) /\ Rejected(c)
        /\ \A x \in Calls : pc[x] # "select"

\* C20 as stated: a call is not rejected while a token goroutine of its key is
\* ready to send.
C20_NeverRejectedWithToken ==
    \A c \in Calls : Rejected(c) /\ retAt[c] = now => ~TokenReady(c)

\* C20 amended: a call is rejected while a token goroutine of its key is ready to
\* send only when that goroutine finished its sleep at the instant the call's
\* timeout did: the select takes either case then.
C20_RejectedOnlyAtTie ==
    \A c \in Calls :
        Rejected(c) /\ retAt[c] = now =>
            /\ retAt[c] = tmoDue[c]
            /\ ~FirstReady(tokenChan[c])
            /\ \A p \in Calls :
                  NextReady(p) /\ tokenChan[p] = tokenChan[c] => nextDue[p] = tmoDue[c]

\* a call has just been rejected though the next token became ready at the
\* instant its timeout expired
C20_Witness ==
    \E c, p \in Calls :
        /\ Rejected(c) /\ retAt[c] = now /\ tmoDue[c] = now
        /\ NextReady(p) /\ tokenChan[p] = tokenChan[c] /\ nextDue[p] = now

====
